---- MODULE Spec2Model ----
(***************************************************************************)
(* Model of the Readwise MCP server: the two revisions of the API client   *)
(* (src/readwise_client.py, src/server/readwise_client.py), the 13 tools   *)
(* of src/server/main.py and its inbound authentication middleware.        *)
(*                                                                         *)
(* A tool invocation is a coroutine: the code between two awaits of the    *)
(* HTTP request is one atomic step.  Invoke runs a tool up to its first    *)
(* request (or to its return), each Respond* action runs it from the reply *)
(* to the next request (or to its return).                                 *)
(*                                                                         *)
(* Python values: None is <<>> and a present optional value x is <<x>>.    *)
(* A list of reader documents is a sequence of documents; a document is a  *)
(* function from its field names.  A list of highlights / books is a       *)
(* sequence of runs <<lo, hi>> of consecutive item ids (the remote numbers *)
(* its items 1..total in the order it serves them).                        *)
(***************************************************************************)
EXTENDS Integers, Sequences, FiniteSets, TLC

VARIABLES
    boundClient,    \* which readwise_client module `from readwise_client
                    \* import ReadwiseClient` resolves to: "server" (the file
                    \* beside main.py) or "root" (src/readwise_client.py);
                    \* the search path of the launch decides
    pages,          \* reader remote: the chain of /list pages
    total,          \* highlights remote: number of items it holds
    pc,             \* "idle" | "inflight" | "done"
    tool,           \* the tool being invoked
    targs,          \* its arguments
    method,         \* the client method it called
    margs,          \* that method's arguments
    params,         \* params of the request in flight
    all_results,    \* the client loop's aggregate
    requests,       \* every request issued by this invocation, in order
    replies,        \* the kind of every reply received, in order
    ret,            \* what the client call returned (None if it raised)
    result,         \* what the tool returned to the MCP transport
    req_path,       \* inbound HTTP request: path
    req_auth,       \* inbound HTTP request: Authorization header
    api_key,        \* MCP_API_KEY ("" when not configured)
    http_status,    \* status the middleware answered with (0: none yet)
    forwarded,      \* whether call_next(request) was called
    last,           \* the caller's previous invocation: what it asked and
                    \* what it was told (tool "none": no previous one)
    other           \* the frame of a second invocation, suspended at its
                    \* await while this one runs (pc "idle": no second one)

vars == <<boundClient, pages, total, pc, tool, targs, method, margs, params,
          all_results, requests, replies, ret, result,
          req_path, req_auth, api_key, http_status, forwarded, last, other>>

remoteVars == <<boundClient, pages, total>>
callVars == <<pc, tool, targs, method, margs, params, all_results, requests,
              replies, ret, result>>
authVars == <<req_path, req_auth, api_key, http_status, forwarded>>
callerVars == <<last, other>>

---------------------------------------------------------------------------
(* Bounds of the model *)

MaxPages == 3       \* pages in a reader page chain
MaxPageLen == 2     \* documents on one reader page
MaxLimit == 3       \* largest finite limit passed to list_documents
MaxFullPages == 2   \* full 1000-item pages the highlights remote may hold
MaxPage == 2        \* largest page number a caller passes
MaxHeaderSegs == 3  \* pieces an inbound Authorization header is built from
MaxKeySegs == 2     \* pieces MCP_API_KEY is built from
MaxEndlessPages == 4 \* pages the model holds of a chain that never ends
MaxContentLength == 3 \* largest content_max_length a caller passes

(* Program constants *)

FetchAllPageSize == 1000
DefaultPageSize == 100
DefaultLimit == 20

---------------------------------------------------------------------------
(* Python values *)

None == <<>>
Some(x) == <<x>>

Min(a, b) == IF a <= b THEN a ELSE b

\* list[:n] for n >= 0, on a sequence
Slice(list, n) == SubSeq(list, 1, Min(n, Len(list)))

\* the run-list of the items lo..hi
Run(lo, hi) == IF lo > hi THEN <<>> ELSE << <<lo, hi>> >>

RECURSIVE RunLen(_)
\* len(list) of a run-list
RunLen(runs) ==
    IF runs = <<>> THEN 0
    ELSE (runs[1][2] - runs[1][1] + 1) + RunLen(Tail(runs))

RECURSIVE RunSlice(_, _)
\* list[:n] for n >= 0, on a run-list
RunSlice(runs, n) ==
    IF runs = <<>> \/ n <= 0 THEN <<>>
    ELSE LET lo == runs[1][1]
             hi == runs[1][2]
             k == hi - lo + 1
         IN IF k >= n THEN << <<lo, lo + n - 1>> >>
            ELSE << runs[1] >> \o RunSlice(Tail(runs), n - k)

RECURSIVE RunMerge(_)
\* the same list with adjacent runs that continue each other joined
RunMerge(runs) ==
    IF Len(runs) <= 1 THEN runs
    ELSE LET rest == RunMerge(Tail(runs))
         IN IF rest[1][1] = runs[1][2] + 1
            THEN << <<runs[1][1], rest[1][2]>> >> \o Tail(rest)
            ELSE << runs[1] >> \o rest

---------------------------------------------------------------------------
(* The remote service *)

\* content of document i as the remote stores it: i characters, "xyxy..."
ContentText(i) == [j \in 1..i |-> IF j % 2 = 1 THEN "x" ELSE "y"]

\* document i as /list serves it, with or without a content field
Doc(i, withContent) ==
    IF withContent THEN [id |-> i, content |-> ContentText(i)] ELSE [id |-> i]

RECURSIVE Sum(_, _)
Sum(f, n) == IF n = 0 THEN 0 ELSE f[n] + Sum(f, n - 1)

\* which documents carry content: none, all, or the odd-numbered ones
ContentPatterns == {"none", "all", "odd"}

HasContent(i, pattern) ==
    \/ pattern = "all"
    \/ pattern = "odd" /\ i % 2 = 1

\* the page chain with lens[k] documents on page k; page k's cursor is k,
\* and every page but the last carries the cursor of the next
Chain(lens, pattern) ==
    [k \in 1..Len(lens) |->
        [results |-> [j \in 1..lens[k] |->
                        Doc(Sum(lens, k - 1) + j,
                            HasContent(Sum(lens, k - 1) + j, pattern))],
         nextPageCursor |-> IF k < Len(lens) THEN Some(k + 1) ELSE None]]

Chains ==
    {Chain(lens, pattern) :
        lens \in UNION {[1..n -> 0..MaxPageLen] : n \in 1..MaxPages},
        pattern \in ContentPatterns}

\* the first pages of a chain that never ends: every page has documents and
\* carries the cursor of a next page
EndlessChain(lens, pattern) ==
    [k \in 1..Len(lens) |->
        [Chain(lens, pattern)[k] EXCEPT !.nextPageCursor = Some(k + 1)]]

EndlessChains ==
    {EndlessChain(lens, pattern) :
        lens \in [1..MaxEndlessPages -> 1..MaxPageLen],
        pattern \in ContentPatterns}

\* the authors and site names the remote's documents have: JSON null, "",
\* and names in several cases
Authors == <<None, Some(<<>>), Some(<<"A", "b">>), Some(<<"b">>),
             Some(<<"B", "a">>)>>
Sites == <<Some(<<"x", ".", "a">>), None, Some(<<"X">>)>>

\* document i with metadata: one document in six has no author field, one in
\* four no site_name field, one in three no content field; shift rotates the
\* authors over the documents
DocWithMetadata(i, shift) ==
    LET au == (i + shift) % (Len(Authors) + 1)
        si == i % (Len(Sites) + 1)
        fields == {"id"} \cup (IF au = 0 THEN {} ELSE {"author"})
                         \cup (IF si = 0 THEN {} ELSE {"site_name"})
                         \cup (IF i % 3 = 0 THEN {} ELSE {"content"})
    IN [f \in fields |->
            CASE f = "id" -> i
              [] f = "author" -> Authors[au]
              [] f = "site_name" -> Sites[si]
              [] OTHER -> ContentText(i)]

\* the chain of MaxPages full pages of documents with metadata
MetadataChain(shift) ==
    [k \in 1..MaxPages |->
        [results |-> [j \in 1..MaxPageLen |->
                        DocWithMetadata((k - 1) * MaxPageLen + j, shift)],
         nextPageCursor |-> IF k < MaxPages THEN Some(k + 1) ELSE None]]

\* the one-page chain of the scenario: 5 "later" documents on one page
ScenarioChain == Chain(<<5>>, "all")

Totals ==
    {0, 1, DefaultPageSize, DefaultPageSize + 1}
    \cup {k * FetchAllPageSize + d :
            k \in 0..MaxFullPages, d \in {0, 1, FetchAllPageSize \div 2}}

\* GET /list: the page the cursor names (no cursor: the first page)
ListPage(cursor) ==
    LET k == IF cursor = None THEN 1 ELSE cursor[1]
    IN [shape |-> "dict",
        results |-> pages[k].results,
        nextPageCursor |-> pages[k].nextPageCursor]

\* GET /list: whether the model holds the page the cursor names
CursorExists(cursor) ==
    IF cursor = None THEN TRUE ELSE cursor[1] \in DOMAIN pages

\* GET /highlights, /books, /export: whether the remote has this page at all
\* (a page past the end is answered 404, like page 0)
PageExists(page, page_size) ==
    page >= 1 /\ (page = 1 \/ (page - 1) * page_size < total)

\* GET /highlights, /books, /export: page `page` of pages of `page_size`
NumberedPage(page, page_size) ==
    [shape |-> "dict",
     results |-> Run((page - 1) * page_size + 1, Min(page * page_size, total)),
     next |-> IF page * page_size < total THEN Some(page + 1) ELSE None,
     count |-> Some(total)]

\* every document of the chain, in served order
RECURSIVE AllDocsFrom(_)
AllDocsFrom(k) ==
    IF k > Len(pages) THEN <<>> ELSE pages[k].results \o AllDocsFrom(k + 1)

\* a reply whose JSON body is a dict for an endpoint that is not paginated
PlainReply(endpoint) ==
    CASE endpoint = "GET /tags" -> [shape |-> "dict", tags |-> <<"t">>]
      [] endpoint = "GET /search" -> [shape |-> "dict", results |-> AllDocsFrom(1)]
      [] endpoint = "GET /review" -> [shape |-> "dict", highlights |-> Run(1, Min(total, DefaultPageSize))]
      [] OTHER -> [shape |-> "dict"]

\* a reply whose JSON body is not a dict (a list, a string, a number)
BadShape == [shape |-> "other"]

---------------------------------------------------------------------------
(* The API client.  A step of a client method is what it does next: issue  *)
(* a request, return a value, or raise.                                    *)

Send(p, acc) == [kind |-> "send", params |-> p, all_results |-> acc,
                 value |-> None, exc |-> "none"]
Return(v) == [kind |-> "return", params |-> None, all_results |-> <<>>,
              value |-> v, exc |-> "none"]
Raise(e) == [kind |-> "raise", params |-> None, all_results |-> <<>>,
             value |-> None, exc |-> e]

MethodArgs(limit, fetch_all, page, page_size, extra) ==
    [limit |-> limit, fetch_all |-> fetch_all, page |-> page,
     page_size |-> page_size, extra |-> extra]

\* the query of a request; a key the method does not set is None
Query(endpoint, pageCursor, page, page_size, extra) ==
    [endpoint |-> endpoint, pageCursor |-> pageCursor, page |-> page,
     page_size |-> page_size, extra |-> extra]

\* _request: what the awaited call gives for a reply of the remote.
\* A non-2xx status becomes Exception("Readwise API error: ..."); any other
\* failure (connect, timeout, a body that is not JSON) is re-raised as it is.
request_outcome(reply) ==
    IF reply.kind \in {"ok", "other"} THEN "ok"
    ELSE IF reply.kind = "status" THEN "ApiError"
    ELSE "TransportError"

\* no loop has a try around its request: the exception leaves the method and
\* the aggregate is dropped with the frame
request_failedKeepsPartial(m, acc, e) ==
    IF acc = <<>> THEN Raise(e)
    ELSE IF m \in {"list_highlights", "search_highlights", "list_books"}
         THEN Return([shape |-> "dict", results |-> acc, count |-> None])
    ELSE Return(acc)

\* as if a failed request were sent once more before giving up
request_failedRetriesOnce(m, acc, e) ==
    IF \E i \in 1..(Len(requests) - 1) : requests[i] = params THEN Raise(e)
    ELSE Send(params, acc)

request_failed(m, acc, e) == Raise(e)

\* ---- list_documents, src/readwise_client.py

\* the query keys beside pageCursor, given the filters that came with a
\* non-empty value: location, category, and updated_after as updatedAfter
root_list_documents_params(filters) ==
    (filters \cap {"location", "category"})
        \cup (IF "updated_after" \in filters THEN {"updatedAfter"} ELSE {})

\* as if the aggregate were kept on the client object between calls
root_list_documents_beginOnLeftovers(limit, filters) ==
    Send(Query("GET /list", None, None, None, root_list_documents_params(filters)),
         IF last.tool = "readwise_list_documents" /\ last.ret.kind = "return"
         THEN last.ret.value ELSE <<>>)

root_list_documents_end(all, limit) ==
    IF limit = None THEN all ELSE Slice(all, limit[1])

root_list_documents_begin(limit, filters) ==
    Send(Query("GET /list", None, None, None, root_list_documents_params(filters)),
         <<>>)

\* as if the loop never wrote the cursor of the response into params
root_list_documents_resumeSameCursor(limit, p, acc, response) ==
    LET results == response.results
        fetch_all == limit = None
        extended == acc \o results
    IN IF results = <<>> THEN Return(root_list_documents_end(acc, limit))
       ELSE IF ~fetch_all /\ Len(extended) >= limit[1]
            THEN Return(Slice(extended, limit[1]))
       ELSE IF response.nextPageCursor = None
            THEN Return(root_list_documents_end(extended, limit))
       ELSE Send(p, extended)

\* as if the early return tested len(all_results) > limit
root_list_documents_resumeStrict(limit, p, acc, response) ==
    LET results == response.results
        fetch_all == limit = None
        extended == acc \o results
    IN IF results = <<>> THEN Return(root_list_documents_end(acc, limit))
       ELSE IF ~fetch_all /\ Len(extended) > limit[1]
            THEN Return(Slice(extended, limit[1]))
       ELSE IF response.nextPageCursor = None
            THEN Return(root_list_documents_end(extended, limit))
       ELSE Send([p EXCEPT !.pageCursor = response.nextPageCursor], extended)

root_list_documents_resume(limit, p, acc, response) ==
    LET results == response.results
        fetch_all == limit = None
        extended == acc \o results
    IN IF results = <<>> THEN Return(root_list_documents_end(acc, limit))
       ELSE IF ~fetch_all /\ Len(extended) >= limit[1]
            THEN Return(Slice(extended, limit[1]))
       ELSE IF response.nextPageCursor = None
            THEN Return(root_list_documents_end(extended, limit))
       ELSE Send([p EXCEPT !.pageCursor = response.nextPageCursor], extended)

\* ---- list_documents, src/server/readwise_client.py

server_list_documents_endNoSlice(all, limit) == all

\* return all_results[:limit]
server_list_documents_end(all, limit) == Slice(all, limit[1])

\* as if the loop head were `while True`
server_list_documents_loopNoLimit(limit, p, acc) ==
    IF limit = None THEN Raise("TypeError") ELSE Send(p, acc)

\* the loop head `while len(all_results) < limit`; comparing an int with None
\* raises TypeError
server_list_documents_loop(limit, p, acc) ==
    IF limit = None THEN Raise("TypeError")
    ELSE IF Len(acc) < limit[1] THEN Send(p, acc)
    ELSE Return(server_list_documents_end(acc, limit))

\* the query keys beside pageCursor: location and category; updated_after
\* falls into **kwargs and is not sent
server_list_documents_params(filters) == filters \cap {"location", "category"}

server_list_documents_begin(limit, filters) ==
    server_list_documents_loop(
        limit,
        Query("GET /list", None, None, None, server_list_documents_params(filters)),
        <<>>)

server_list_documents_resume(limit, p, acc, response) ==
    LET results == response.results
        extended == acc \o results
    IN IF results = <<>> THEN Return(server_list_documents_end(acc, limit))
       ELSE IF response.nextPageCursor = None
            THEN Return(server_list_documents_end(extended, limit))
       ELSE server_list_documents_loop(
                limit, [p EXCEPT !.pageCursor = response.nextPageCursor], extended)

\* ---- the fetch-all loops of list_highlights, search_highlights, list_books
\* (src/readwise_client.py) and export_highlights (both revisions).  They are
\* the same loop over different endpoints; `wrap` says whether the method
\* returns {"results": ..., "count": len} or the bare list.

Wrapped(list) == [shape |-> "dict", results |-> list, count |-> Some(RunLen(list))]

fetch_all_end(acc, wrap) == IF wrap THEN Wrapped(acc) ELSE acc

fetch_all_begin(endpoint, extra) ==
    Send(Query(endpoint, None, Some(1), Some(FetchAllPageSize), extra), <<>>)

fetch_all_resumeIgnoresNext(wrap, p, acc, response) ==
    LET results == response.results
        extended == acc \o results
    IN IF results = <<>> THEN Return(fetch_all_end(acc, wrap))
       ELSE Send([p EXCEPT !.page = Some(p.page[1] + 1)], extended)

fetch_all_resume(wrap, p, acc, response) ==
    LET results == response.results
        extended == acc \o results
    IN IF results = <<>> THEN Return(fetch_all_end(acc, wrap))
       ELSE IF response.next = None THEN Return(fetch_all_end(extended, wrap))
       ELSE Send([p EXCEPT !.page = Some(p.page[1] + 1)], extended)

\* ---- the single-page branch of list_highlights and list_books (both
\* revisions; the server revision takes fetch_all as one more filter and
\* sends it as a query parameter)

single_page_begin(endpoint, page_size, page, extra) ==
    Send(Query(endpoint, None, Some(page), Some(page_size), extra), <<>>)

\* ---- search_highlights, single page (src/readwise_client.py)
root_search_page_resume(response) ==
    [shape |-> "dict", results |-> response.results,
     count |-> Some(RunLen(response.results))]

\* ---- get_book_highlights: list_highlights for one book; the revision of
\* src/readwise_client.py asks for every page, the one of
\* src/server/readwise_client.py takes list_highlights' defaults (page 1 of
\* pages of 100)

root_get_book_highlights == MethodArgs(None, TRUE, 1, DefaultPageSize, {"book_id"})

server_get_book_highlights == MethodArgs(None, FALSE, 1, DefaultPageSize, {"book_id"})

\* ---- dispatch: the first step of a client method, and its step on a reply

\* the method whose body runs, and its arguments
Callee(rev, m, a) ==
    IF m = "get_book_highlights"
    THEN [method |-> "list_highlights",
          margs |-> IF rev = "root" THEN root_get_book_highlights
                    ELSE server_get_book_highlights]
    ELSE [method |-> m, margs |-> a]

Endpoint(m) ==
    CASE m = "save_document" -> "POST /save"
      [] m = "update_document" -> "PATCH /documents"
      [] m = "delete_document" -> "DELETE /documents"
      [] m = "list_tags" -> "GET /tags"
      [] m = "topic_search" -> "GET /search"
      [] m = "list_highlights" -> "GET /highlights"
      [] m = "search_highlights" -> "GET /highlights"
      [] m = "list_books" -> "GET /books"
      [] m = "get_daily_review" -> "GET /review"
      [] m = "export_highlights" -> "GET /export"
      [] m = "create_highlight" -> "POST /highlights"
      [] OTHER -> "GET /list"

\* the methods whose fetch_all branch exists (src/readwise_client.py only)
Aggregates(rev, m, a) ==
    \/ m = "export_highlights"
    \/ rev = "root" /\ m \in {"list_highlights", "search_highlights", "list_books"}
                    /\ a.fetch_all

method_begin(rev, m, a) ==
    CASE m = "list_documents" ->
            IF rev = "root" THEN root_list_documents_begin(a.limit, a.extra)
            ELSE server_list_documents_begin(a.limit, a.extra)
      [] m \in {"list_highlights", "search_highlights", "list_books",
                "export_highlights"} ->
            IF Aggregates(rev, m, a) THEN fetch_all_begin(Endpoint(m), a.extra)
            ELSE single_page_begin(Endpoint(m), a.page_size, a.page, a.extra)
      [] OTHER -> Send(Query(Endpoint(m), None, None, None, a.extra), <<>>)

\* response.get(...) on a body that is not a dict raises AttributeError
method_resume(rev, m, a, p, acc, response) ==
    CASE m \in {"save_document", "update_document", "delete_document",
                "get_daily_review", "create_highlight"} -> Return(response)
      [] m \in {"list_highlights", "list_books"} /\ ~Aggregates(rev, m, a) ->
            Return(response)
      [] response.shape # "dict" -> Raise("AttributeError")
      [] m = "list_documents" ->
            IF rev = "root" THEN root_list_documents_resume(a.limit, p, acc, response)
            ELSE server_list_documents_resume(a.limit, p, acc, response)
      [] m = "list_tags" -> Return(response.tags)
      [] m = "topic_search" -> Return(response.results)
      [] m = "search_highlights" /\ ~Aggregates(rev, m, a) ->
            Return(root_search_page_resume(response))
      [] OTHER -> fetch_all_resume(m # "export_highlights", p, acc, response)

client_begin(rev, m, a) ==
    method_begin(rev, Callee(rev, m, a).method, Callee(rev, m, a).margs)

client_resume(rev, m, a, p, acc, response) ==
    method_resume(rev, Callee(rev, m, a).method, Callee(rev, m, a).margs,
                  p, acc, response)

---------------------------------------------------------------------------
(* The tool layer (src/server/main.py) *)

Tools == {"readwise_save_document", "readwise_list_documents",
          "readwise_update_document", "readwise_delete_document",
          "readwise_list_tags", "readwise_topic_search",
          "readwise_list_highlights", "readwise_get_daily_review",
          "readwise_search_highlights", "readwise_list_books",
          "readwise_get_book_highlights", "readwise_export_highlights",
          "readwise_create_highlight"}

DefaultArgs == [limit |-> Some(DefaultLimit), fetch_all |-> FALSE,
                with_full_content |-> FALSE, page |-> 1,
                page_size |-> DefaultPageSize, max_results |-> None,
                title |-> None, author |-> None, summary |-> None,
                location |-> None, tags |-> None,
                site_name |-> None, content_max_length |-> None,
                category |-> None, updated_after |-> None]

Limits == {None, Some(DefaultLimit)} \cup {Some(n) : n \in 0..MaxLimit}

\* the arguments each tool is called with (the others at their defaults)
ArgsOf(t) ==
    CASE t = "readwise_list_documents" ->
            {[DefaultArgs EXCEPT !.limit = l, !.fetch_all = f,
                                 !.with_full_content = c] :
                l \in Limits, f \in BOOLEAN, c \in BOOLEAN}
      [] t \in {"readwise_list_highlights", "readwise_search_highlights",
                "readwise_list_books"} ->
            {[DefaultArgs EXCEPT !.fetch_all = f, !.page = p, !.page_size = s] :
                f \in BOOLEAN, p \in 1..MaxPage,
                s \in {DefaultPageSize, FetchAllPageSize}}
      [] t = "readwise_export_highlights" ->
            {[DefaultArgs EXCEPT !.max_results = m] :
                m \in {None} \cup {Some(n) : n \in 0..MaxLimit}}
      [] t = "readwise_topic_search" ->
            {[DefaultArgs EXCEPT !.limit = l] : l \in Limits \ {None}}
      [] OTHER -> {DefaultArgs}

\* the fields readwise_update_document can change
UpdateFields == {"title", "author", "summary", "location", "tags"}

\* readwise_update_document called with each field left out, given empty, or
\* given a value
UpdateArgs ==
    {[DefaultArgs EXCEPT !.title = ti, !.author = au, !.summary = su,
                         !.location = lo, !.tags = ta] :
        ti \in {None, Some(<<>>), Some(<<"T">>)},
        au \in {None, Some(<<>>), Some(<<"A">>)},
        su \in {None, Some(<<>>), Some(<<"S">>)},
        lo \in {None, Some(<<>>), Some(<<"n", "e", "w">>)},
        ta \in {None, Some(<<>>), Some(<<"t">>)}}

\* `if x:` on an Optional[str] (a string is the sequence of its characters)
\* and on an Optional[List[str]]
TruthyStr(v) == v # None /\ Len(v[1]) > 0
TruthyList(v) == v # None /\ Len(v[1]) > 0

\* readwise_list_documents called with or without content, with each
\* content_max_length, and with author and site_name filters
DocumentArgs ==
    {[DefaultArgs EXCEPT !.limit = l, !.fetch_all = f,
                         !.with_full_content = c, !.content_max_length = m] :
        l \in Limits, f \in BOOLEAN, c \in BOOLEAN,
        m \in {None} \cup {Some(n) : n \in 0..MaxContentLength}}
    \cup
    {[DefaultArgs EXCEPT !.limit = l, !.fetch_all = f,
                         !.author = au, !.site_name = si] :
        l \in Limits, f \in BOOLEAN,
        au \in {None, Some(<<>>), Some(<<"b">>), Some(<<"A", "B">>)},
        si \in {None, Some(<<>>), Some(<<"X">>)}}

\* the keys of the `updates` dict readwise_update_document builds, which is
\* the JSON body of the PATCH request (each key with the caller's value)
updates(a) ==
    {f \in UpdateFields \ {"tags"} : TruthyStr(a[f])}
        \cup (IF TruthyList(a.tags) THEN {"tags"} ELSE {})

\* the filters readwise_list_documents hands to list_documents with a
\* non-empty value (the client tests each with `if location:` and so on)
list_documents_filters(a) ==
    {f \in {"location", "category", "updated_after"} : TruthyStr(a[f])}

\* readwise_list_documents called with finite limits and with each of
\* location, category and updated_after left out, given empty, or given
RevisionArgs ==
    {[DefaultArgs EXCEPT !.limit = l, !.location = lo, !.category = ca,
                         !.updated_after = ua] :
        l \in Limits \ {None},
        lo \in {None, Some(<<>>), Some(<<"n", "e", "w">>)},
        ca \in {None, Some(<<"r", "s", "s">>)},
        ua \in {None, Some(<<"2", "0", "2", "5">>)}}

\* the client method of a tool that makes one plain call
SingleCall(t) ==
    CASE t = "readwise_save_document" -> "save_document"
      [] t = "readwise_update_document" -> "update_document"
      [] t = "readwise_delete_document" -> "delete_document"
      [] t = "readwise_list_tags" -> "list_tags"
      [] t = "readwise_get_daily_review" -> "get_daily_review"
      [] OTHER -> "create_highlight"

NoCall(e) == [exc |-> e, method |-> "none",
              margs |-> MethodArgs(None, FALSE, 1, DefaultPageSize, {})]
Call(m, a) == [exc |-> "none", method |-> m, margs |-> a]

\* the client call a tool makes, against the revision `rev` of the client:
\* a method the revision lacks raises AttributeError, a keyword it does not
\* take raises TypeError, a keyword swallowed by **filters becomes a query key
tool_call(t, a, rev) ==
    CASE t = "readwise_list_documents" ->
            Call("list_documents",
                 MethodArgs(IF a.fetch_all THEN None ELSE a.limit, FALSE, 1,
                            DefaultPageSize, list_documents_filters(a)))
      [] t = "readwise_topic_search" ->
            IF rev = "root" THEN NoCall("AttributeError")
            ELSE Call("topic_search",
                      MethodArgs(a.limit, FALSE, 1, DefaultPageSize, {"query", "limit"}))
      [] t = "readwise_list_highlights" ->
            Call("list_highlights",
                 MethodArgs(None, a.fetch_all, a.page, a.page_size,
                            IF rev = "root" THEN {} ELSE {"fetch_all"}))
      [] t = "readwise_search_highlights" ->
            IF rev = "server" THEN NoCall("TypeError")
            ELSE Call("search_highlights",
                      MethodArgs(None, a.fetch_all, a.page, a.page_size, {"q"}))
      [] t = "readwise_list_books" ->
            Call("list_books",
                 MethodArgs(None, a.fetch_all, a.page, a.page_size,
                            IF rev = "root" THEN {} ELSE {"fetch_all"}))
      [] t = "readwise_get_book_highlights" ->
            Call("get_book_highlights",
                 MethodArgs(None, FALSE, 1, DefaultPageSize, {}))
      [] t = "readwise_export_highlights" ->
            Call("export_highlights", MethodArgs(None, FALSE, 1, DefaultPageSize, {}))
      [] t = "readwise_update_document" ->
            Call("update_document",
                 MethodArgs(None, FALSE, 1, DefaultPageSize, updates(a)))
      [] OTHER ->
            Call(SingleCall(t), MethodArgs(None, FALSE, 1, DefaultPageSize, {}))

\* ---- what a tool does with the value its client call returned

TextResult(head, count, payload) ==
    [fault |-> FALSE, head |-> head, count |-> count, payload |-> payload]

pop_contentKeep(doc) == doc

\* doc.pop("content", None)
pop_content(doc) == [f \in (DOMAIN doc) \ {"content"} |-> doc[f]]

\* s.lower(), over the letters the model's strings are made of
Lower(s) ==
    [i \in 1..Len(s) |->
        CASE s[i] = "A" -> "a" [] s[i] = "B" -> "b" [] s[i] = "X" -> "x"
          [] OTHER -> s[i]]

\* sub in s
Contains(s, sub) ==
    \E i \in 1..(Len(s) - Len(sub) + 1) : SubSeq(s, i, i + Len(sub) - 1) = sub

\* as if the document's field were compared without .lower()
field_matchesCaseSensitive(doc, field, needle_lower) ==
    /\ field \in DOMAIN doc
    /\ TruthyStr(doc[field])
    /\ Contains(doc[field][1], needle_lower)

\* doc.get(field) and needle_lower in doc[field].lower()
field_matches(doc, field, needle_lower) ==
    /\ field \in DOMAIN doc
    /\ TruthyStr(doc[field])
    /\ Contains(Lower(doc[field][1]), needle_lower)

\* the list comprehension of a filter, run only `if needle:`
filter_by(documents, field, needle) ==
    LET keep(doc) == field_matches(doc, field, Lower(needle[1]))
    IN IF TruthyStr(needle) THEN SelectSeq(documents, keep) ELSE documents

TruncationMarker == <<".", ".", ".">>

\* elif content_max_length:
truncation_requested(content_max_length) ==
    content_max_length # None /\ content_max_length[1] # 0

\* doc["content"] = doc["content"][:content_max_length] + "..." when the
\* document has content longer than content_max_length
truncate_content(doc, content_max_length) ==
    IF "content" \in DOMAIN doc /\ Len(doc.content) > content_max_length
    THEN [doc EXCEPT !.content = Slice(doc.content, content_max_length)
                                    \o TruncationMarker]
    ELSE doc

\* readwise_list_documents after the client call
list_documents_finish(a, documents) ==
    LET by_author == filter_by(documents, "author", a.author)
        filtered == filter_by(by_author, "site_name", a.site_name)
        shown == IF ~a.with_full_content
                 THEN [i \in 1..Len(filtered) |-> pop_content(filtered[i])]
                 ELSE IF truncation_requested(a.content_max_length)
                 THEN [i \in 1..Len(filtered) |->
                        truncate_content(filtered[i], a.content_max_length[1])]
                 ELSE filtered
    IN TextResult("Found", Len(shown), shown)

\* result.get("results", []), the projection, result.get("count", len(optimized))
paged_finish(value) ==
    LET optimized == value.results
        total_count == IF value.count = None THEN RunLen(optimized)
                       ELSE value.count[1]
    IN TextResult("Found", total_count, optimized)

\* readwise_export_highlights after the client call
export_finish(a, highlights) ==
    LET kept == IF a.max_results # None /\ a.max_results[1] # 0
                THEN RunSlice(highlights, a.max_results[1])
                ELSE highlights
    IN TextResult("Exported", RunLen(kept), kept)

\* the tool's code after its client call: a text, or the exception it raises
\* (result.get on a value that is not a dict raises AttributeError)
tool_finish(t, a, value) ==
    CASE t = "readwise_list_documents" -> Return(list_documents_finish(a, value))
      [] t \in {"readwise_list_highlights", "readwise_search_highlights",
                "readwise_list_books", "readwise_get_book_highlights"} ->
            IF value.shape # "dict" THEN Raise("AttributeError")
            ELSE Return(paged_finish(value))
      [] t = "readwise_export_highlights" -> Return(export_finish(a, value))
      [] t = "readwise_get_daily_review" ->
            IF value.shape # "dict" THEN Raise("AttributeError")
            ELSE Return(TextResult("Daily review", RunLen(value.highlights),
                                   value.highlights))
      [] t = "readwise_list_tags" ->
            Return(TextResult("Found", Len(value), value))
      [] t = "readwise_topic_search" ->
            Return(TextResult("Found", Len(value), value))
      [] t = "readwise_delete_document" ->
            Return(TextResult("Document deleted successfully", 0, <<>>))
      [] OTHER -> Return(TextResult("successfully", 0, <<>>))

CaughtOnlyApiErrors(e) == e \in {"ApiError", "TransportError"}

\* the classes `except Exception` catches
Caught(e) == e \in {"ApiError", "TransportError", "TypeError", "AttributeError"}

\* except Exception as e: return f"Error: {str(e)}"
\* (an exception the clause does not catch reaches the MCP transport)
tool_except(e) ==
    IF Caught(e)
    THEN [fault |-> FALSE, head |-> "Error: ", count |-> 0, payload |-> <<>>]
    ELSE [fault |-> TRUE, head |-> e, count |-> 0, payload |-> <<>>]

\* the whole try block, given the last step of the client call
tool_return(t, a, st) ==
    IF st.kind = "raise" THEN tool_except(st.exc)
    ELSE LET fin == tool_finish(t, a, st.value)
         IN IF fin.kind = "raise" THEN tool_except(fin.exc) ELSE fin.value

---------------------------------------------------------------------------
(* The state machine of one tool invocation *)

NoStep == [kind |-> "none", params |-> None, all_results |-> <<>>,
           value |-> None, exc |-> "none"]
NoResult == [fault |-> FALSE, head |-> "", count |-> 0, payload |-> <<>>]
NoArgs == MethodArgs(None, FALSE, 1, DefaultPageSize, {})

\* what is kept of an invocation once it has returned
NoLast == [tool |-> "none", targs |-> DefaultArgs, replies |-> <<>>,
           ret |-> NoStep, result |-> NoResult]

\* the locals of a coroutine: its position, its arguments, its loop variables
Frame(c, t, a, m, ma, p, acc, reqs, reps, r, res) ==
    [pc |-> c, tool |-> t, targs |-> a, method |-> m, margs |-> ma,
     params |-> p, all_results |-> acc, requests |-> reqs, replies |-> reps,
     ret |-> r, result |-> res]

NoFrame == Frame("idle", "none", DefaultArgs, "none", NoArgs, None, <<>>,
                 <<>>, <<>>, NoStep, NoResult)

\* no earlier and no concurrent invocation
Alone ==
    /\ last = NoLast
    /\ other = NoFrame

Idle ==
    /\ pc = "idle"
    /\ tool = "none"
    /\ targs = DefaultArgs
    /\ method = "none"
    /\ margs = NoArgs
    /\ params = None
    /\ all_results = <<>>
    /\ requests = <<>>
    /\ replies = <<>>
    /\ ret = NoStep
    /\ result = NoResult

NoInbound ==
    /\ req_path = ""
    /\ req_auth = <<>>
    /\ api_key = <<>>
    /\ http_status = 0
    /\ forwarded = FALSE

\* the remotes the model draws from: a reader chain with an empty highlights
\* library, or a highlights library with an empty reader
Init ==
    /\ boundClient \in {"root", "server"}
    /\ \/ pages \in Chains \cup {ScenarioChain} /\ total = 0
       \/ pages = Chain(<<0>>, "none") /\ total \in Totals
    /\ Idle
    /\ Alone
    /\ NoInbound

\* the invocation goes on to its next request, or returns to the transport
Advance(t, a, st) ==
    IF st.kind = "send"
    THEN /\ pc' = "inflight"
         /\ params' = st.params
         /\ all_results' = st.all_results
         /\ requests' = Append(requests, st.params)
         /\ UNCHANGED <<ret, result>>
    ELSE /\ pc' = "done"
         /\ params' = None
         /\ all_results' = <<>>
         /\ ret' = st
         /\ result' = tool_return(t, a, st)
         /\ UNCHANGED requests

\* a tool is invoked: its code up to the first request
Invoke(t, a) ==
    /\ pc = "idle"
    /\ LET call == tool_call(t, a, boundClient)
       IN /\ tool' = t
          /\ targs' = a
          /\ method' = call.method
          /\ margs' = call.margs
          /\ Advance(t, a, IF call.exc # "none" THEN Raise(call.exc)
                           ELSE client_begin(boundClient, call.method, call.margs))
    /\ UNCHANGED <<replies, remoteVars, authVars, callerVars>>

\* the body the remote serves for the request with query p
BodyOf(p) ==
    IF p.endpoint = "GET /list" THEN ListPage(p.pageCursor)
    ELSE IF p.page # None
         THEN NumberedPage(p.page[1], p.page_size[1])
    ELSE PlainReply(p.endpoint)

\* the body the remote serves for the request in flight
RemoteBody == BodyOf(params)

\* the awaited _request completes with `reply`: the code up to the next request
Respond(reply) ==
    /\ pc = "inflight"
    /\ replies' = Append(replies, reply.kind)
    /\ Advance(tool, targs,
               IF request_outcome(reply) = "ok"
               THEN client_resume(boundClient, method, margs, params,
                                  all_results, reply.body)
               ELSE request_failed(Callee(boundClient, method, margs).method,
                                   all_results, request_outcome(reply)))
    /\ UNCHANGED <<tool, targs, method, margs, remoteVars, authVars, callerVars>>

\* 2xx with the body the remote holds for this request
RespondOk ==
    /\ pc = "inflight"
    /\ params.page # None => PageExists(params.page[1], params.page_size[1])
    /\ params.endpoint = "GET /list" => CursorExists(params.pageCursor)
    /\ Respond([kind |-> "ok", body |-> RemoteBody])

\* 2xx with a JSON body that is not a dict
RespondBadShape ==
    /\ pc = "inflight"
    /\ Respond([kind |-> "other", body |-> BadShape])

\* a non-2xx status
RespondStatus ==
    /\ pc = "inflight"
    /\ Respond([kind |-> "status", body |-> BadShape])

\* no reply: DNS, connect or timeout failure
RespondTransportFailure ==
    /\ pc = "inflight"
    /\ Respond([kind |-> "transport", body |-> BadShape])

\* the text reaches the caller and the coroutine's frame is gone
Deliver ==
    /\ pc = "done"
    /\ pc' = "idle"
    /\ tool' = "none"
    /\ targs' = DefaultArgs
    /\ method' = "none"
    /\ margs' = NoArgs
    /\ params' = None
    /\ all_results' = <<>>
    /\ requests' = <<>>
    /\ replies' = <<>>
    /\ ret' = NoStep
    /\ result' = NoResult
    /\ UNCHANGED <<remoteVars, authVars, callerVars>>

Next ==
    \/ \E t \in Tools : \E a \in ArgsOf(t) : Invoke(t, a)
    \/ RespondOk
    \/ RespondBadShape
    \/ RespondStatus
    \/ RespondTransportFailure
    \/ Deliver

Spec == Init /\ [][Next]_vars

---------------------------------------------------------------------------
(* A caller that repeats its call.  Every invocation is served by a new    *)
(* coroutine that reads the module-level `client`, whose attributes (token, *)
(* base URLs, headers) no method assigns after __init__.                   *)

\* the read-only list/search/export tools
ReadOnlyTools == {"readwise_list_documents", "readwise_list_tags",
                  "readwise_topic_search", "readwise_list_highlights",
                  "readwise_search_highlights", "readwise_list_books",
                  "readwise_get_book_highlights", "readwise_export_highlights"}

InitRepeat ==
    /\ boundClient \in {"root", "server"}
    /\ \/ /\ pages \in {Chain(lens, "odd") :
                        lens \in UNION {[1..n -> 1..MaxPageLen] : n \in 1..MaxPages}}
          /\ total = 0
       \/ pages = Chain(<<0>>, "none") /\ total \in Totals
    /\ Idle
    /\ Alone
    /\ NoInbound

\* the caller invokes a tool; once it has had an answer, it invokes the same
\* tool again with the same arguments
InvokeOrRepeat(t, a) ==
    /\ last.tool # "none" => (last.tool = t /\ last.targs = a)
    /\ Invoke(t, a)

\* the first answer reaches the caller, who keeps it; the coroutine's frame
\* is gone
DeliverAndKeep ==
    /\ pc = "done"
    /\ last.tool = "none"
    /\ last' = [tool |-> tool, targs |-> targs, replies |-> replies,
                ret |-> ret, result |-> result]
    /\ pc' = "idle"
    /\ tool' = "none"
    /\ targs' = DefaultArgs
    /\ method' = "none"
    /\ margs' = NoArgs
    /\ params' = None
    /\ all_results' = <<>>
    /\ requests' = <<>>
    /\ replies' = <<>>
    /\ ret' = NoStep
    /\ result' = NoResult
    /\ UNCHANGED <<remoteVars, authVars, other>>

NextRepeat ==
    \/ \E t \in ReadOnlyTools : \E a \in ArgsOf(t) : InvokeOrRepeat(t, a)
    \/ RespondOk
    \/ RespondBadShape
    \/ RespondStatus
    \/ RespondTransportFailure
    \/ DeliverAndKeep

SpecRepeat == InitRepeat /\ [][NextRepeat]_vars

---------------------------------------------------------------------------
(* Two invocations at once.  FastMCP runs each tool call as a coroutine on *)
(* one event loop; a coroutine gives up the loop only at an await, that is *)
(* while its request is in flight (or before it has started, or after it   *)
(* has returned).  The running coroutine is in the call variables, the     *)
(* other one is suspended in `other`.                                      *)

ConcurrentTools == {"readwise_list_documents", "readwise_list_books",
                    "readwise_export_highlights"}

\* one remote: a reader chain of full pages and a library of full pages and
\* a half
InitConcurrent ==
    /\ boundClient \in {"root", "server"}
    /\ pages = Chain([k \in 1..MaxPages |-> MaxPageLen], "odd")
    /\ total = MaxFullPages * FetchAllPageSize + FetchAllPageSize \div 2
    /\ Idle
    /\ Alone
    /\ NoInbound

CurrentFrame ==
    Frame(pc, tool, targs, method, margs, params, all_results, requests,
          replies, ret, result)

\* as if the query of the request were kept on the shared client: the
\* coroutine that resumes finds the cursor the other one wrote
SwitchSharingParams ==
    /\ CurrentFrame # other
    /\ other' = CurrentFrame
    /\ pc' = other.pc
    /\ tool' = other.tool
    /\ targs' = other.targs
    /\ method' = other.method
    /\ margs' = other.margs
    /\ params' = IF /\ pc = "inflight" /\ other.pc = "inflight"
                    /\ params.endpoint = other.params.endpoint
                 THEN [other.params EXCEPT !.pageCursor = params.pageCursor,
                                           !.page = params.page]
                 ELSE other.params
    /\ all_results' = other.all_results
    /\ requests' = other.requests
    /\ replies' = other.replies
    /\ ret' = other.ret
    /\ result' = other.result
    /\ UNCHANGED <<remoteVars, authVars, last>>

\* the event loop suspends the running coroutine at its await and resumes
\* the other one, whose locals are as it left them
Switch ==
    /\ CurrentFrame # other
    /\ other' = CurrentFrame
    /\ pc' = other.pc
    /\ tool' = other.tool
    /\ targs' = other.targs
    /\ method' = other.method
    /\ margs' = other.margs
    /\ params' = other.params
    /\ all_results' = other.all_results
    /\ requests' = other.requests
    /\ replies' = other.replies
    /\ ret' = other.ret
    /\ result' = other.result
    /\ UNCHANGED <<remoteVars, authVars, last>>

NextConcurrent ==
    \/ \E t \in ConcurrentTools : \E a \in ArgsOf(t) : Invoke(t, a)
    \/ RespondOk
    \/ RespondStatus
    \/ Switch

SpecConcurrent == InitConcurrent /\ [][NextConcurrent]_vars

---------------------------------------------------------------------------
(* Updates of a document's metadata *)

InitUpdate ==
    /\ boundClient \in {"root", "server"}
    /\ pages = ScenarioChain
    /\ total = 0
    /\ Idle
    /\ Alone
    /\ NoInbound

NextUpdate ==
    \/ \E a \in UpdateArgs : Invoke("readwise_update_document", a)
    \/ RespondOk
    \/ RespondStatus
    \/ RespondTransportFailure
    \/ Deliver

SpecUpdate == InitUpdate /\ [][NextUpdate]_vars

---------------------------------------------------------------------------
(* A remote whose page chain never ends.  The model holds its first        *)
(* MaxEndlessPages pages and follows an invocation until it asks for a     *)
(* page beyond them.                                                       *)

InitEndless ==
    /\ boundClient \in {"root", "server"}
    /\ pages \in EndlessChains
    /\ total = 0
    /\ Idle
    /\ Alone
    /\ NoInbound

NextEndless ==
    \/ \E a \in ArgsOf("readwise_list_documents") :
            Invoke("readwise_list_documents", a)
    \/ RespondOk
    \/ RespondStatus
    \/ Deliver

SpecEndless == InitEndless /\ [][NextEndless]_vars

---------------------------------------------------------------------------
(* Listings of documents that have authors, site names and content *)

InitDocuments ==
    /\ boundClient \in {"root", "server"}
    /\ pages \in {MetadataChain(shift) : shift \in 0..Len(Authors)}
    /\ total = 0
    /\ Idle
    /\ Alone
    /\ NoInbound

NextDocuments ==
    \/ \E a \in DocumentArgs : Invoke("readwise_list_documents", a)
    \/ RespondOk
    \/ RespondStatus
    \/ Deliver

SpecDocuments == InitDocuments /\ [][NextDocuments]_vars

---------------------------------------------------------------------------
(* Listings with finite limits and location / category / updated_after     *)
(* filters, served by either revision of the client                        *)

InitRevisions ==
    /\ boundClient \in {"root", "server"}
    /\ pages \in {Chain(lens, "odd") :
                    lens \in UNION {[1..n -> 0..MaxPageLen] : n \in 1..MaxPages}}
    /\ total = 0
    /\ Idle
    /\ Alone
    /\ NoInbound

NextRevisions ==
    \/ \E a \in RevisionArgs : Invoke("readwise_list_documents", a)
    \/ RespondOk
    \/ RespondStatus
    \/ Deliver

SpecRevisions == InitRevisions /\ [][NextRevisions]_vars

---------------------------------------------------------------------------
(* Inbound authentication (create_app.auth_middleware).  A string is the   *)
(* sequence of its characters; an absent Authorization header reads as "". *)

Bearer == <<"B", "e", "a", "r", "e", "r", " ">>

\* s.startswith(prefix)
StartsWith(s, prefix) ==
    Len(s) >= Len(prefix) /\ SubSeq(s, 1, Len(prefix)) = prefix

RECURSIVE Replace(_, _, _)
\* s.replace(old, new) for a non-empty old: every occurrence, left to right
Replace(s, old, new) ==
    IF Len(s) < Len(old) THEN s
    ELSE IF StartsWith(s, old)
         THEN new \o Replace(SubSeq(s, Len(old) + 1, Len(s)), old, new)
    ELSE <<s[1]>> \o Replace(Tail(s), old, new)

\* the paths the middleware lets through without looking at the header
ExemptPathsAndMcp ==
    {"/health", "/.well-known/oauth-protected-resource",
     "/.well-known/oauth-authorization-server", "/register", "/mcp"}

ExemptPaths ==
    {"/health", "/.well-known/oauth-protected-resource",
     "/.well-known/oauth-authorization-server", "/register"}

\* auth_middleware: "forward" for call_next(request), "401" for the
\* JSONResponse with status_code=401.  if MCP_API_KEY: is false for "" too.
auth_middleware(path, auth_header, key) ==
    IF path \in ExemptPaths THEN "forward"
    ELSE IF key # <<>>
         THEN IF ~StartsWith(auth_header, Bearer) THEN "401"
              ELSE IF Replace(auth_header, Bearer, <<>>) # key THEN "401"
              ELSE "forward"
    ELSE "forward"

RECURSIVE Concat(_)
Concat(segs) == IF segs = <<>> THEN <<>> ELSE segs[1] \o Concat(Tail(segs))

\* the strings made of at most n of the given pieces
Strings(pieces, n) ==
    {Concat(segs) : segs \in UNION {[1..k -> pieces] : k \in 0..n}}

Headers == Strings({Bearer, <<"k">>, <<"y">>, <<"B", "a", "s", "i", "c", " ">>},
                   MaxHeaderSegs)

Keys == Strings({<<"k">>, <<"y">>, Bearer}, MaxKeySegs)

Paths == ExemptPathsAndMcp \cup {"/health/"}

InitAuth ==
    /\ boundClient = "server"
    /\ pages = Chain(<<0>>, "none")
    /\ total = 0
    /\ Idle
    /\ Alone
    /\ api_key \in Keys
    /\ req_path = ""
    /\ req_auth = <<>>
    /\ http_status = 0
    /\ forwarded = FALSE

\* an HTTP request arrives
Arrive(path, auth_header) ==
    /\ req_path = ""
    /\ req_path' = path
    /\ req_auth' = auth_header
    /\ UNCHANGED <<api_key, http_status, forwarded, remoteVars, callVars, callerVars>>

\* the middleware handles it
Middleware ==
    /\ req_path # ""
    /\ http_status = 0 /\ ~forwarded
    /\ IF auth_middleware(req_path, req_auth, api_key) = "forward"
       THEN forwarded' = TRUE /\ UNCHANGED http_status
       ELSE http_status' = 401 /\ UNCHANGED forwarded
    /\ UNCHANGED <<req_path, req_auth, api_key, remoteVars, callVars, callerVars>>

\* the response has been sent
Answered ==
    /\ http_status # 0 \/ forwarded
    /\ req_path' = ""
    /\ req_auth' = <<>>
    /\ http_status' = 0
    /\ forwarded' = FALSE
    /\ UNCHANGED <<api_key, remoteVars, callVars, callerVars>>

NextAuth ==
    \/ \E path \in Paths : \E h \in Headers : Arrive(path, h)
    \/ Middleware
    \/ Answered

SpecAuth == InitAuth /\ [][NextAuth]_vars

---------------------------------------------------------------------------
(* Properties *)

\* the invocation has returned and its client call returned a value
Returned == pc = "done" /\ ret.kind = "return"

\* the method whose body ran, and its arguments
Ran == Callee(boundClient, method, margs)

\* a page-number aggregation ran (or is running)
PageAggregation ==
    /\ method # "none"
    /\ Ran.method # "list_documents"
    /\ Aggregates(boundClient, Ran.method, Ran.margs)

\* the list a page-number client call returned
ReturnedItems ==
    IF Ran.method = "export_highlights" THEN ret.value ELSE ret.value.results

\* every item the highlights remote holds, in served order
AllItems == Run(1, total)

RECURSIVE Drive(_)
\* list_documents(limit=None) of src/readwise_client.py run to its return
\* against the reader remote, every request answered with its page
Drive(st) ==
    IF st.kind = "send"
    THEN Drive(root_list_documents_resume(None, st.params, st.all_results,
                                           ListPage(st.params.pageCursor)))
    ELSE st.value

Unbounded == Drive(root_list_documents_begin(None, {}))

\* C1: an aggregation run without a limit returns the concatenation, in
\* served order, of the results of every page of the chain: for
\* list_documents every page up to the first without a nextPageCursor, for a
\* page-number operation every item the remote holds.
C1_UnboundedIsEveryPage ==
    /\ (Returned /\ Ran.method = "list_documents" /\ Ran.margs.limit = None)
            => ret.value = AllDocsFrom(1)
    /\ (Returned /\ PageAggregation) => RunMerge(ReturnedItems) = AllItems

\* C2: list_documents with a finite limit N >= 0, in either revision,
\* returns at most N documents, and they are the first min(N, total)
\* documents of what list_documents returns with no limit.
C2_LimitIsPrefixOfUnbounded ==
    (Returned /\ Ran.method = "list_documents" /\ Ran.margs.limit # None)
        => /\ Len(ret.value) <= Ran.margs.limit[1]
           /\ ret.value = Slice(Unbounded, Ran.margs.limit[1])

\* C2 happens: a second page was needed and the aggregate was cut to N
C2_Witness ==
    /\ Returned /\ Ran.method = "list_documents"
    /\ Ran.margs.limit = Some(2)
    /\ Len(requests) = 2
    /\ Len(ret.value) = 2
    /\ Len(Unbounded) > 2

\* the request for page k >= 2 failed after k-1 pages were fetched
FailedMidLoop ==
    /\ pc = "done"
    /\ Len(replies) >= 2
    /\ replies[Len(replies)] \in {"status", "transport"}
    /\ \A i \in 1..(Len(replies) - 1) : replies[i] = "ok"

\* C3: when the request for page k >= 2 of an aggregation loop fails after
\* pages 1..k-1 were fetched, the tool returns one text starting with
\* "Error: " that holds none of the items fetched so far.
C3_MidLoopFailureDropsPartial ==
    FailedMidLoop
        => /\ ~result.fault
           /\ result.head = "Error: "
           /\ result.payload = <<>>
           /\ result.count = 0

\* C3 happens: the export of 2500 highlights is answered a non-2xx status on
\* its second page, after a first page of 1000
C3_Witness ==
    /\ FailedMidLoop
    /\ tool = "readwise_export_highlights"
    /\ total = 2 * FetchAllPageSize + FetchAllPageSize \div 2
    /\ replies = <<"ok", "status">>
    /\ result.head = "Error: "

\* C4: every tool invocation ends with a text returned to the MCP transport,
\* whatever its client call did: no exception propagates.
C4_ToolsAlwaysReturnText ==
    pc = "done" => ~result.fault /\ result.head # ""

\* C4 happens: the client call raised TypeError or AttributeError (a method
\* the bound client lacks, a keyword it rejects, a body of unexpected shape)
\* and the tool answered with an error text
C4_Witness ==
    /\ pc = "done"
    /\ ret.kind = "raise"
    /\ ret.exc \in {"TypeError", "AttributeError"}
    /\ ~result.fault
    /\ result.head = "Error: "

\* every reply of the list was 2xx with the remote's body
AllOk(reps) == \A i \in 1..Len(reps) : reps[i] = "ok"

\* every request of the invocation was answered 2xx with the remote's body
AllAnswered ==
    /\ Len(replies) = Len(requests)
    /\ \A i \in 1..Len(replies) : replies[i] = "ok"

\* C5: readwise_get_book_highlights returns every highlight of the book,
\* from every page, also when they are more than one page of 100.
C5_BookHighlightsFromEveryPage ==
    (Returned /\ tool = "readwise_get_book_highlights" /\ AllAnswered)
        => /\ result.head = "Found"
           /\ RunMerge(result.payload) = AllItems

\* C8: readwise_list_documents without with_full_content returns documents
\* none of which has a content field; limit=2 against one page of 5
\* documents returns exactly the first 2, each without content.
C8_ContentIsStripped ==
    (Returned /\ tool = "readwise_list_documents" /\ ~targs.with_full_content)
        => /\ \A i \in 1..Len(result.payload) :
                    "content" \notin DOMAIN result.payload[i]
           /\ (pages = ScenarioChain /\ targs.limit = Some(2) /\ ~targs.fetch_all)
                    => result.payload = <<[id |-> 1], [id |-> 2]>>

\* C8 happens: the scenario, with documents that came with content
C8_Witness ==
    /\ Returned /\ tool = "readwise_list_documents" /\ ~targs.with_full_content
    /\ pages = ScenarioChain /\ targs.limit = Some(2) /\ ~targs.fetch_all
    /\ Len(ret.value) = 2
    /\ "content" \in DOMAIN ret.value[1]
    /\ result.count = 2

\* C9: readwise_list_documents with fetch_all=True ignores limit and returns
\* every document the remote serves, whichever client the server is bound to.
C9_FetchAllReturnsEveryDocument ==
    (pc = "done" /\ tool = "readwise_list_documents" /\ targs.fetch_all
        /\ AllAnswered)
        => /\ result.head = "Found"
           /\ Len(result.payload) = Len(AllDocsFrom(1))

RECURSIVE Replay(_, _, _, _, _, _)
\* an invocation run on its own from the step `st`, its requests answered
\* with the replies `reps` in turn: the requests it issues, where it stands
\* and the text it returns
Replay(t, a, call, st, reqs, reps) ==
    IF st.kind # "send"
    THEN [requests |-> reqs, pc |-> "done", result |-> tool_return(t, a, st)]
    ELSE IF reps = <<>>
         THEN [requests |-> Append(reqs, st.params), pc |-> "inflight",
               result |-> NoResult]
    ELSE Replay(t, a, call,
                IF Head(reps) = "ok"
                THEN client_resume(boundClient, call.method, call.margs,
                                   st.params, st.all_results, BodyOf(st.params))
                ELSE request_failed(
                        Callee(boundClient, call.method, call.margs).method,
                        st.all_results, "ApiError"),
                Append(reqs, st.params), Tail(reps))

\* the invocation of tool t with arguments a, run alone
RunAlone(t, a, reps) ==
    LET call == tool_call(t, a, boundClient)
    IN Replay(t, a, call,
              IF call.exc # "none" THEN Raise(call.exc)
              ELSE client_begin(boundClient, call.method, call.margs),
              <<>>, reps)

\* the frame f is where the same invocation would be had it run alone
AsAlone(f) ==
    f.tool # "none"
        => LET alone == RunAlone(f.tool, f.targs, f.replies)
           IN /\ f.requests = alone.requests
              /\ f.pc = alone.pc
              /\ f.result = alone.result

C13_TopicSearchAtMostLimit ==
    (pc = "done" /\ tool = "readwise_topic_search")
        => Len(result.payload) <= targs.limit[1]

\* C14: the body of the PATCH request of readwise_update_document contains
\* a field (title, author, summary, location, tags) if and only if the
\* caller provided it, an empty string or an empty tag list included.
C14_SentIffProvided ==
    (tool = "readwise_update_document" /\ Len(requests) >= 1)
        => \A f \in UpdateFields :
                f \in requests[1].extra <=> targs[f] # None

\* C15: within one list_documents invocation the page requests are
\* sequential and chained: the first carries no pageCursor, request k+1 is
\* issued only once response k has been received, with the nextPageCursor
\* of response k as its pageCursor, and at most one request is outstanding.
C15_PageRequestsChained ==
    (method = "list_documents")
        => /\ Len(requests) >= 1 => requests[1].pageCursor = None
           /\ Len(replies) <= Len(requests)
           /\ Len(requests) <= Len(replies) + 1
           /\ pc = "inflight" <=> Len(requests) = Len(replies) + 1
           /\ \A k \in 1..(Len(requests) - 1) :
                /\ replies[k] = "ok"
                /\ ListPage(requests[k].pageCursor).nextPageCursor # None
                /\ requests[k + 1].pageCursor
                        = ListPage(requests[k].pageCursor).nextPageCursor

\* C15 happens: the third page is being requested with the cursor the second
\* response carried
C15_Witness ==
    /\ method = "list_documents"
    /\ pc = "inflight"
    /\ Len(requests) = 3 /\ Len(replies) = 2
    /\ requests[2].pageCursor = Some(2)
    /\ requests[3].pageCursor = Some(3)

\* C16: no request is retried: within one invocation no page (cursor value
\* or page number) is requested twice, and after the first request that
\* fails (non-2xx status or transport failure) the invocation issues no
\* further request and returns.
C16_NoRetry ==
    /\ \A i \in 1..Len(requests) : \A j \in 1..Len(requests) :
            i # j => requests[i] # requests[j]
    /\ \A k \in 1..Len(replies) :
            replies[k] \in {"status", "transport"}
                => /\ k = Len(requests)
                   /\ pc = "done"
                   /\ ret.kind = "raise"

\* C16 happens: the third page request of an aggregation gets no reply and
\* the invocation returns without a fourth request
C16_Witness ==
    /\ pc = "done"
    /\ replies = <<"ok", "ok", "transport">>
    /\ Len(requests) = 3
    /\ result.head = "Error: "

\* C17: an aggregation terminates after finitely many page requests even
\* when every response has results and a cursor: an unbounded
\* list_documents that has been served every page the model holds of an
\* endless chain has returned, it is not asking for one more.
C17_TerminatesOnEndlessChain ==
    (method = "list_documents" /\ margs.limit = None
        /\ Len(replies) = MaxEndlessPages /\ AllOk(replies))
        => pc = "done"

RECURSIVE Fetched(_)
\* the number of documents on the pages the first k requests asked for
Fetched(k) ==
    IF k = 0 THEN 0
    ELSE Len(ListPage(requests[k].pageCursor).results) + Fetched(k - 1)

\* C18: list_documents with a finite limit N >= 1 stops early: once the
\* documents of the responses received number at least N it issues no
\* further request, whether or not the last response carried a
\* nextPageCursor, and returns exactly N documents.
C18_StopsAtLimit ==
    (method = "list_documents" /\ margs.limit # None /\ margs.limit[1] >= 1)
        => \A k \in 1..Len(replies) :
                (AllOk(SubSeq(replies, 1, k)) /\ Fetched(k) >= margs.limit[1])
                    => /\ Len(requests) = k
                       /\ Returned
                       /\ Len(ret.value) = margs.limit[1]

\* C18 happens: the second response brings the aggregate past N = 3 and
\* carries a cursor that is not followed
C18_Witness ==
    /\ method = "list_documents" /\ margs.limit = Some(3)
    /\ Returned
    /\ replies = <<"ok", "ok">>
    /\ Fetched(2) > 3
    /\ ListPage(requests[2].pageCursor).nextPageCursor # None
    /\ Len(ret.value) = 3

\* the content the tool returns for a document whose original content is c,
\* as the claim states it for content_max_length = L
ContentUpTo(c, L) == IF Len(c) <= L THEN c ELSE Slice(c, L) \o TruncationMarker

\* readwise_list_documents returned its listing, asked for content cut to L
ReturnedWithContentCut ==
    /\ Returned /\ tool = "readwise_list_documents"
    /\ targs.with_full_content
    /\ targs.content_max_length # None

\* C19: with with_full_content=True and content_max_length = L >= 0, every
\* returned document that has content has its original content when that is
\* at most L characters long, and otherwise its first L characters followed
\* by "...".
C19_ContentCutToLength ==
    ReturnedWithContentCut
        => \A i \in 1..Len(result.payload) :
                "content" \in DOMAIN ret.value[i]
                    => result.payload[i].content
                         = ContentUpTo(ret.value[i].content,
                                       targs.content_max_length[1])

\* the document has the field, with a string in it that contains the filter
\* string when both are read without regard to case
HasMatching(doc, field, needle) ==
    /\ field \in DOMAIN doc
    /\ doc[field] # None
    /\ \E i \in 0..(Len(doc[field][1]) - Len(needle)) :
            \A j \in 1..Len(needle) :
                Lower(<<doc[field][1][i + j]>>) = Lower(<<needle[j]>>)

RECURSIVE Matching(_, _, _)
\* the documents of the list that match, in the order of the list
Matching(docs, field, needle) ==
    IF docs = <<>> THEN <<>>
    ELSE (IF HasMatching(docs[1], field, needle) THEN <<docs[1]>> ELSE <<>>)
            \o Matching(Tail(docs), field, needle)

\* the documents without their content field
WithoutContent(docs) == [i \in 1..Len(docs) |-> pop_content(docs[i])]

\* readwise_list_documents returned its listing, each request answered
ListingReturned ==
    /\ Returned /\ tool = "readwise_list_documents"
    /\ ~targs.with_full_content

\* what the client call fetched is the first `limit` documents of the remote
FetchedFirst ==
    (~targs.fetch_all /\ targs.limit # None)
        => ret.value = Slice(AllDocsFrom(1), targs.limit[1])

\* C20 as stated: with an author (site_name) filter the tool returns exactly
\* the documents fetched by the client call whose author (site_name) is
\* present and contains the filter string case-insensitively, in server
\* order.
C20_FilterKeepsExactlyMatching ==
    /\ (ListingReturned /\ targs.author # None /\ targs.site_name = None)
            => result.payload
                 = WithoutContent(Matching(ret.value, "author", targs.author[1]))
    /\ (ListingReturned /\ targs.site_name # None /\ targs.author = None)
            => result.payload
                 = WithoutContent(Matching(ret.value, "site_name",
                                           targs.site_name[1]))

\* what a filter argument keeps: an argument left out or given as the empty
\* string keeps every document
Kept(docs, field, needle) ==
    IF needle = None THEN docs
    ELSE IF needle[1] = <<>> THEN docs
    ELSE Matching(docs, field, needle[1])

\* C20 amended: with a non-empty author (site_name) filter the tool returns
\* exactly the documents, in server order, among those fetched by the client
\* call (the first `limit` documents of the remote) whose author (site_name)
\* is a string containing the filter case-insensitively; both filters given,
\* a document must match both; an empty filter string keeps every fetched
\* document, those without the field too.
C20_NonEmptyFilterKeepsMatching ==
    ListingReturned
        => /\ FetchedFirst
           /\ result.payload
                 = WithoutContent(Kept(Kept(ret.value, "author", targs.author),
                                       "site_name", targs.site_name))
           /\ result.count = Len(result.payload)

\* C20 happens: of the first 3 documents, fetched in two requests, the
\* filter "AB" keeps some and drops some, among them one whose author
\* matches only without regard to case
C20_Witness ==
    /\ ListingReturned
    /\ targs.author = Some(<<"A", "B">>) /\ targs.limit = Some(3)
    /\ ~targs.fetch_all
    /\ Len(requests) = 2
    /\ Len(ret.value) = 3
    /\ Len(result.payload) \in 1..2
    /\ \E i \in 1..3 : /\ "author" \in DOMAIN ret.value[i]
                        /\ ret.value[i].author = Some(<<"A", "b">>)
                        /\ \E k \in 1..Len(result.payload) :
                                result.payload[k].id = ret.value[i].id

\* the tools whose text is a count followed by a list of items
ListLikeTools == {"readwise_list_highlights", "readwise_search_highlights",
                  "readwise_list_books", "readwise_get_book_highlights",
                  "readwise_export_highlights", "readwise_list_documents"}

\* the number of items in the payload of the text the tool returned
PayloadSize ==
    IF tool = "readwise_list_documents" THEN Len(result.payload)
    ELSE RunLen(result.payload)

\* C21: in the text of every list-like tool the count printed after
\* "Found" / "Exported" is the number of items of the payload printed in the
\* same text, in single-page mode as in fetch_all mode, also when the
\* remote's own count differs from the number of results on the page.
C21_CountIsPayloadSize ==
    (pc = "done" /\ tool \in ListLikeTools
        /\ result.head \in {"Found", "Exported"})
        => result.count = PayloadSize

\* the revision of the client the server is not bound to
OtherRevision == IF boundClient = "root" THEN "server" ELSE "root"

RECURSIVE list_documents_replay(_, _, _, _, _)
\* list_documents of revision rev run from the step st, its requests
\* answered with the replies reps in turn: the requests it issues and the
\* step it stands at once it has returned or raised
list_documents_replay(rev, a, st, reqs, reps) ==
    IF st.kind # "send" THEN [requests |-> reqs, ret |-> st]
    ELSE IF reps = <<>>
         THEN [requests |-> Append(reqs, st.params), ret |-> NoStep]
    ELSE list_documents_replay(
            rev, a,
            IF Head(reps) = "ok"
            THEN method_resume(rev, "list_documents", a, st.params,
                               st.all_results, BodyOf(st.params))
            ELSE request_failed("list_documents", st.all_results, "ApiError"),
            Append(reqs, st.params), Tail(reps))

RECURSIVE list_documents_complete(_, _, _)
\* list_documents of revision rev run from the step st to its return, every
\* request answered with its page
list_documents_complete(rev, a, st) ==
    IF st.kind # "send" THEN st
    ELSE list_documents_complete(
            rev, a,
            method_resume(rev, "list_documents", a, st.params, st.all_results,
                          BodyOf(st.params)))

\* a listing with a finite limit and location / category filters only
FiniteListing ==
    /\ method = "list_documents"
    /\ margs.limit # None
    /\ "updated_after" \notin margs.extra

\* C22: for every finite limit N >= 0, every location / category filter and
\* every page chain the two revisions of list_documents return the same
\* list, and for N >= 1 they issue the same sequence of page requests (and,
\* answered alike, end alike).
C22_RevisionsEquivalent ==
    FiniteListing
        => /\ list_documents_complete(
                    "root", margs, method_begin("root", "list_documents", margs))
                = list_documents_complete(
                    "server", margs, method_begin("server", "list_documents", margs))
           /\ (Returned /\ AllAnswered)
                => ret = list_documents_complete(
                            OtherRevision, margs,
                            method_begin(OtherRevision, "list_documents", margs))
           /\ margs.limit[1] >= 1
                => LET o == list_documents_replay(
                                OtherRevision, margs,
                                method_begin(OtherRevision, "list_documents", margs),
                                <<>>, replies)
                   IN /\ requests = o.requests
                      /\ pc = "done" => ret = o.ret

\* C22 happens: a listing by location with limit 3 that needed two requests,
\* the second carrying the cursor and the filter
C22_Witness ==
    /\ FiniteListing /\ Returned
    /\ margs.limit = Some(3)
    /\ margs.extra = {"location", "category"}
    /\ Len(requests) = 2
    /\ requests[2].pageCursor = Some(2)
    /\ requests[2].extra = {"location", "category"}
    /\ Len(ret.value) = 3

\* the middleware has handled the inbound request
Handled == req_path # "" /\ (forwarded \/ http_status # 0)

\* C6: with MCP_API_KEY configured, a request to a path outside the exempt
\* set is forwarded only if its Authorization header is exactly "Bearer "
\* followed by the key.
C6_ForwardedOnlyWithExactHeader ==
    (Handled /\ api_key # <<>> /\ req_path \notin ExemptPaths /\ forwarded)
        => req_auth = Bearer \o api_key

====
